---- MODULE Spec2Model ----
(***************************************************************************)
(* Model of training/pytorch/show_matrix.py: the per-square attribution    *)
(* report of the PyTorch evaluation network.  One run of main() is one     *)
(* behaviour: the command line is drawn in Init, every later step is a     *)
(* block of main().                                                        *)
(*                                                                         *)
(* Numbers.  Python floats are modelled as exact rationals <<n, d>> with   *)
(* d > 0 in lowest terms, so "up to floating rounding" in the source text  *)
(* reads as exact equality here.                                           *)
(* Strings.  A Python str is a sequence of one-character strings.          *)
(* Squares.  python-chess numbers squares a1 = 0, b1 = 1, ..., h8 = 63     *)
(* (square = 8 * rank + file); chess.SQUARES is that range.                *)
(***************************************************************************)
EXTENDS Integers, Sequences, FiniteSets, TLC

\* None where a piece is expected
None == "None"

\* None where a float is expected
NoFloat == <<>>

\* ------------------------------------------------------------ rationals

Abs(x) == IF x < 0 THEN -x ELSE x

RECURSIVE GCD(_, _)
GCD(a, b) == IF b = 0 THEN a ELSE GCD(b, a % b)

Rat(n, d) ==
    LET s == IF d < 0 THEN -1 ELSE 1
        g == GCD(Abs(n), Abs(d))
    IN  <<(s * n) \div g, (s * d) \div g>>

RZero == <<0, 1>>

RAdd(x, y) ==
    IF x[1] = 0 THEN y
    ELSE IF y[1] = 0 THEN x
    ELSE IF x[2] = y[2] THEN Rat(x[1] + y[1], x[2])
    ELSE LET l == (x[2] \div GCD(x[2], y[2])) * y[2]
         IN  Rat(x[1] * (l \div x[2]) + y[1] * (l \div y[2]), l)

RNeg(x) == <<-x[1], x[2]>>

RSub(x, y) == RAdd(x, RNeg(y))

RMul(x, y) ==
    LET a == Rat(x[1], y[2])
        b == Rat(y[1], x[2])
    IN  <<a[1] * b[1], a[2] * b[2]>>

\* x / y for y # 0 (Python raises ZeroDivisionError on y = 0; the callers
\* below never divide by a falsy nominal)
RDiv(x, y) == RMul(x, Rat(y[2], y[1]))

RLess(x, y) == x[1] * y[2] < y[1] * x[2]

\* truth value of a nominal in "args.normalize and nominal": None and 0.0
\* are falsy, every other float is truthy
Truthy(nominal) == nominal # NoFloat /\ nominal[1] # 0

\* ------------------------------------------------------------ formatting

RECURSIVE Pow10(_)
Pow10(k) == IF k = 0 THEN 1 ELSE 10 * Pow10(k - 1)

\* f"{val:.kf}" / f"{val:+.kf}": the sign and the magnitude rounded to k
\* decimals (round-half-even on the exact value), as an integer number of
\* 10^-k units
Format(val, k, plus) ==
    LET whole == Abs(val[1]) \div val[2]
        frac  == (Abs(val[1]) % val[2]) * Pow10(k)
        q     == whole * Pow10(k) + (frac \div val[2])
        r2    == 2 * (frac % val[2])
        m     == IF r2 > val[2] \/ (r2 = val[2] /\ q % 2 = 1) THEN q + 1 ELSE q
    IN  [sign   |-> IF val[1] < 0 THEN "-" ELSE IF plus THEN "+" ELSE "",
         digits |-> m]

\* ------------------------------------------------------------ strings

Digits == <<"0", "1", "2", "3", "4", "5", "6", "7", "8", "9">>

IsDigit(c) == \E i \in 1..10 : Digits[i] = c

DigitVal(c) == (CHOOSE i \in 1..10 : Digits[i] = c) - 1

Lower == <<"p", "n", "b", "r", "q", "k", "x">>
Upper == <<"P", "N", "B", "R", "Q", "K", "X">>

\* str.upper() on one character
UpperChar(c) ==
    IF \E i \in 1..Len(Lower) : Lower[i] = c
    THEN Upper[CHOOSE i \in 1..Len(Lower) : Lower[i] = c]
    ELSE c

StrUpper(s) == [i \in 1..Len(s) |-> UpperChar(s[i])]

\* str.strip(): leading and trailing blanks removed
RECURSIVE LStrip(_)
LStrip(s) == IF s # <<>> /\ Head(s) = " " THEN LStrip(Tail(s)) ELSE s

RECURSIVE RStrip(_)
RStrip(s) ==
    IF s # <<>> /\ s[Len(s)] = " " THEN RStrip(SubSeq(s, 1, Len(s) - 1)) ELSE s

Strip(s) == RStrip(LStrip(s))

Contains(s, c) == \E i \in 1..Len(s) : s[i] = c

\* str.split(sep): the pieces between the separators, at least one piece
RECURSIVE Split(_, _)
Split(s, sep) ==
    IF ~Contains(s, sep) THEN <<s>>
    ELSE LET i == CHOOSE j \in 1..Len(s) :
                      s[j] = sep /\ \A h \in 1..(j - 1) : s[h] # sep
         IN  <<SubSeq(s, 1, i - 1)>> \o Split(SubSeq(s, i + 1, Len(s)), sep)

RECURSIVE DigitsToInt(_)
DigitsToInt(s) ==
    IF s = <<>> THEN 0
    ELSE 10 * DigitsToInt(SubSeq(s, 1, Len(s) - 1)) + DigitVal(s[Len(s)])

\* float(v) on the characters the model draws (digits, ".", blanks,
\* letters, ":"): blanks around the number are dropped, then digits with at
\* most one "." and at least one digit parse; anything else is a ValueError
ParseFloat(v) ==
    LET t   == Strip(v)
        seg == Split(t, ".")
        ok  == /\ Len(seg) <= 2
               /\ \A i \in 1..Len(seg) : \A j \in 1..Len(seg[i]) : IsDigit(seg[i][j])
               /\ \E i \in 1..Len(seg) : seg[i] # <<>>
    IN  IF ~ok THEN [raised |-> TRUE, val |-> NoFloat]
        ELSE IF Len(seg) = 1
        THEN [raised |-> FALSE, val |-> Rat(DigitsToInt(seg[1]), 1)]
        ELSE [raised |-> FALSE,
              val |-> Rat(DigitsToInt(seg[1] \o seg[2]), Pow10(Len(seg[2])))]

\* ------------------------------------------------------------ python-chess

SQUARES == 0..63

PieceSymbols == <<"P", "N", "B", "R", "Q", "K", "p", "n", "b", "r", "q", "k">>

\* piece.piece_type, named by its upper-case letter
PieceType(sym) == UpperChar(sym)

FileNames == <<"a", "b", "c", "d", "e", "f", "g", "h">>

\* chess.square_name(sq)
SquareName(sq) == <<FileNames[(sq % 8) + 1], Digits[(sq \div 8) + 2]>>

\* no square
NoSquare == 0 - 1

\* board.copy(stack=False) followed by remove_piece_at(sq)
RemovePieceAt(b, sq) == [b EXCEPT ![sq] = None]

\* ------------------------------------------------------------ the network
\* generate_dataset.board_to_features and train_eval_net.ChessEvalNet are
\* not part of the analysed file.  The feature rows and the rows of the
\* per-square head are in Field order: row 0 = a8, rank 8 down to rank 1,
\* files a to h; the 12 columns are the piece-type/colour combinations.

\* the python-chess square of Field row r
FieldSquare(r) == 8 * (7 - (r \div 8)) + (r % 8)

\* the Field row of python-chess square s
FieldIndex(s) == 8 * (7 - (s \div 8)) + (s % 8)

\* 0-based column of a piece symbol
PieceColumn(sym) == (CHOOSE i \in 1..12 : PieceSymbols[i] = sym) - 1

OneHot == [c \in 0..11 |-> [d \in 0..11 |-> IF c = d THEN 1 ELSE 0]]

ZeroRow == [d \in 0..11 |-> 0]

\* feats[:-1].view(64, 12): one-hot rows, all zero on an empty square
board_to_features(b) ==
    [r \in 0..63 |->
        IF b[FieldSquare(r)] = None THEN ZeroRow
        ELSE OneHot[PieceColumn(b[FieldSquare(r)])]]

FeatOccupied(feats, r) == feats[r] # ZeroRow

FeatColumn(feats, r) == CHOOSE c \in 0..11 : feats[r][c] = 1

\* sum of term[i] for i in lo..hi, by halves
RECURSIVE SumRange(_, _, _)
SumRange(term, lo, hi) ==
    IF lo = hi THEN term[lo]
    ELSE LET mid == (lo + hi) \div 2
             a   == SumRange(term, lo, mid)
             b   == SumRange(term, mid + 1, hi)
         IN  RAdd(a, b)

\* the global head: a deterministic function of the weights and the features
ModelGlobal(w, feats) ==
    SumRange([r \in 0..63 |->
                 IF FeatOccupied(feats, r)
                 THEN Rat((((w + 2) * (r + 3) + 5 * FeatColumn(feats, r)) % 13) - 5, 4)
                 ELSE RZero], 0, 63)

\* the per-square head, viewed as 64 x 12
SquareHead ==
    [w \in 0..3 |->
        [r \in 0..63 |->
            [c \in 0..11 |-> Rat((((w + 1) * (r + 1) + 7 * c) % 23) - 9, 4)]]]

ModelSquares(w, feats) == SquareHead[w]

\* torch.argmax over a row: the first index holding the maximum
Argmax(row) ==
    CHOOSE c \in 0..11 :
        /\ \A d \in 0..11 : row[d] <= row[c]
        /\ \A d \in 0..(c - 1) : row[d] < row[c]

\* contrib = sq.gather(1, piece_idx.unsqueeze(1)).squeeze(1)
Gather(sq, feats) == [r \in 0..63 |-> sq[r][Argmax(feats[r])]]

\* ------------------------------------------------------------ helpers of main

Min(a, b) == IF a < b THEN a ELSE b
Max(a, b) == IF a > b THEN a ELSE b

\* dict.get(k) and d[k] = v on a dict held as a function
DictGet(d, k) == IF k \in DOMAIN d THEN d[k] ELSE NoFloat

DictSet(d, k, v) == [x \in (DOMAIN d) \cup {k} |-> IF x = k THEN v ELSE d[x]]

\* a default table that gives the king the nominal of the help text
DefaultNomWithKing ==
    [k \in {<<"P">>, <<"N">>, <<"B">>, <<"R">>, <<"Q">>, <<"K">>} |->
        IF k = <<"P">> THEN Rat(1, 1)
        ELSE IF k = <<"N">> THEN Rat(3, 1)
        ELSE IF k = <<"B">> THEN Rat(3, 1)
        ELSE IF k = <<"R">> THEN Rat(5, 1)
        ELSE IF k = <<"Q">> THEN Rat(7, 1)
        ELSE Rat(46, 10)]

\* line 63: the table the parsing starts from
DefaultNom ==
    [k \in {<<"P">>, <<"N">>, <<"B">>, <<"R">>, <<"Q">>, <<"K">>} |->
        IF k = <<"P">> THEN Rat(1, 1)
        ELSE IF k = <<"N">> THEN Rat(3, 1)
        ELSE IF k = <<"B">> THEN Rat(3, 1)
        ELSE IF k = <<"R">> THEN Rat(5, 1)
        ELSE IF k = <<"Q">> THEN Rat(7, 1)
        ELSE NoFloat]

\* line 37: the argparse default of --piece-nominals
DefaultPieceNominals ==
    <<"P", ":", "1", ",", "N", ":", "4", ".", "1", ",",
      "B", ":", "4", ".", "1", ",", "R", ":", "5", ",",
      "Q", ":", "7", ".", "8", ",", "K", ":", "4", ".", "6">>

\* the key without the upper-casing
NominalKeyCaseSensitive(k) == Strip(k)

\* line 67: the key a token's symbol is stored under
NominalKey(k) == StrUpper(Strip(k))

\* every token unpacked, the test of line 65 left out
HasSeparatorUnchecked(part) == TRUE

\* line 65: whether a token is looked at at all
HasSeparator(part) == Contains(part, ":")

\* lines 65-67, one pass of the loop body: the table after the token, or
\* raised when the unpacking of part.split(":") or float(v) raises ValueError
ParsePart(d, part) ==
    IF HasSeparator(part)
    THEN LET kv == Split(part, ":")
         IN  IF Len(kv) # 2 THEN [raised |-> TRUE, table |-> d]
             ELSE IF ParseFloat(kv[2]).raised THEN [raised |-> TRUE, table |-> d]
             ELSE [raised |-> FALSE,
                   table  |-> DictSet(d, NominalKey(kv[1]), ParseFloat(kv[2]).val)]
    ELSE [raised |-> FALSE, table |-> d]

\* lines 69-76 and 81: nominal_map.get(piece.piece_type)
NominalOf(d, sym) == DictGet(d, <<PieceType(sym)>>)

\* the two adjustments as alternatives (elif) instead of in sequence
AdjustExclusive(val, nominal, normalize, scale_piece) ==
    IF normalize /\ Truthy(nominal) THEN RDiv(val, nominal)
    ELSE IF scale_piece /\ Truthy(nominal) THEN RMul(val, nominal)
    ELSE val

\* lines 82-85: the two optional adjustments of one value
Adjust(val, nominal, normalize, scale_piece) ==
    LET v1 == IF normalize /\ Truthy(nominal) THEN RDiv(val, nominal) ELSE val
    IN  IF scale_piece /\ Truthy(nominal) THEN RMul(v1, nominal) ELSE v1

\* line 80: the row of contrib read for python-chess square sq_idx
ContribAt(contrib_, sq_idx_) == contrib_[sq_idx_]

\* lines 77-88: contrib_list
Attribution(b, contrib_, d, normalize, scale_piece) ==
    [s \in SQUARES |->
        IF b[s] # None
        THEN Adjust(ContribAt(contrib_, s), NominalOf(d, b[s]), normalize, scale_piece)
        ELSE RZero]

\* line 93: sum(contrib_list)
SumList(l) == SumRange(l, 0, 63)

\* lines 12-21: format_matrix
format_matrix(l) ==
    [i \in 1..8 |-> [f \in 1..8 |-> Format(l[(8 - i) * 8 + (f - 1)], 3, FALSE)]]

\* the list left in the order it was built in
SortNone(l) == l

\* list.sort(key=lambda x: x[0], reverse=True): descending by value, and
\* stable, so entries of equal value keep their order.  Entry i lands
\* behind every larger entry and every equal entry that came before it.
SortedPosition(l, i) ==
    1 + Cardinality({j \in 1..Len(l) : RLess(l[i].val, l[j].val)})
      + Cardinality({j \in 1..(i - 1) : l[j].val = l[i].val})

SortDesc(l) ==
    [k \in 1..Len(l) |-> l[CHOOSE i \in 1..Len(l) : SortedPosition(l, i) = k]]

\* lines 99-103: the entries of the occupied squares lo..hi, in
\* chess.SQUARES order
RECURSIVE ScoredRange(_, _, _, _)
ScoredRange(b, l, lo, hi) ==
    IF lo = hi
    THEN IF b[lo] # None
         THEN <<[val |-> l[lo], sym |-> b[lo], sqname |-> SquareName(lo)]>>
         ELSE <<>>
    ELSE ScoredRange(b, l, lo, (lo + hi) \div 2)
         \o ScoredRange(b, l, ((lo + hi) \div 2) + 1, hi)

Scored(b, l) == ScoredRange(b, l, 0, 63)

\* the last five without the entries the top list already shows
LastFiveBelowTop(l) == SubSeq(l, Max(6, Len(l) - 4), Len(l))

\* scored[:5] and scored[-5:]
FirstFive(l) == SubSeq(l, 1, Min(5, Len(l)))
LastFive(l) == SubSeq(l, Max(1, Len(l) - 4), Len(l))

\* lines 107, 110, 129: one printed line per entry
Lines(l) ==
    [i \in 1..Len(l) |->
        [sqname |-> l[i].sqname, sym |-> l[i].sym, val |-> Format(l[i].val, 3, TRUE)]]

\* the loop tied to --with-delta alone
WantsDeltasFlagOnly(a) == a.with_delta

\* line 113: whether the counterfactual loop runs
WantsDeltas(a) == a.with_delta \/ a.grid_mode = "delta"

\* the loop run on every occupied square, kings included
DeltaSquareWithKings(b, s) == b[s] # None

\* line 116: the squares the loop does not skip
DeltaSquare(b, s) == b[s] # None /\ PieceType(b[s]) # "K"

\* the difference taken the other way round
DeltaReversed(global_eval_, g2) == RSub(g2, global_eval_)

\* line 123
Delta(global_eval_, g2) == RSub(global_eval_, g2)

\* line 136 and 146: delta_map.get(idx, 0.0)
DeltaMapGet(ds, idx) ==
    IF \E i \in 1..Len(ds) : ds[i].sq_idx = idx
    THEN ds[CHOOSE i \in 1..Len(ds) :
               ds[i].sq_idx = idx /\ \A j \in (i + 1)..Len(ds) : ds[j].sq_idx # idx].val
    ELSE RZero

\* lines 145-148: the value a fancy cell shows
GridValue(mode, ds, l, idx) ==
    IF mode = "delta" THEN DeltaMapGet(ds, idx) ELSE l[idx]

\* lines 137-155: the fancy grid, rank 8 first; a blank cell is "blank"
FancyGrid(b, mode, ds, l) ==
    [i \in 1..8 |->
        [f \in 1..8 |->
            LET idx == (8 - i) * 8 + (f - 1)
            IN  IF b[idx] # None
                THEN [sym |-> b[idx], val |-> Format(GridValue(mode, ds, l, idx), 2, FALSE)]
                ELSE [sym |-> "blank", val |-> "blank"]]]

\* ------------------------------------------------------------ inputs

MaxPieces == 2
MaxTokens == 2

EmptyBoard == [s \in SQUARES |-> None]

BackRank == <<"R", "N", "B", "Q", "K", "B", "N", "R">>

\* rnbqkbnr/pppppppp/8/8/8/8/PPPPPPPP/RNBQKBNR (line 27)
StartBoard ==
    [s \in SQUARES |->
        IF s \div 8 = 0 THEN BackRank[(s % 8) + 1]
        ELSE IF s \div 8 = 1 THEN "P"
        ELSE IF s \div 8 = 6 THEN "p"
        ELSE IF s \div 8 = 7 THEN PieceSymbols[PieceColumn(BackRank[(s % 8) + 1]) + 7]
        ELSE None]

\* 4k3/2q3n1/8/3p4/8/8/1PP5/4KR2
SevenBoard ==
    [s \in SQUARES |->
        IF s = 4 THEN "K" ELSE IF s = 5 THEN "R" ELSE IF s = 9 THEN "P"
        ELSE IF s = 10 THEN "P" ELSE IF s = 35 THEN "p" ELSE IF s = 50 THEN "q"
        ELSE IF s = 54 THEN "n" ELSE IF s = 60 THEN "k" ELSE None]

\* the boards with at most MaxPieces pieces on the probed squares
ProbeSquares == {4, 27, 60}
ProbePieces == {"K", "Q", "p"}

SmallBoards ==
    {[s \in SQUARES |-> IF s \in ProbeSquares THEN f[s] ELSE None] :
        f \in {h \in [ProbeSquares -> ProbePieces \cup {None}] :
                  Cardinality({s \in ProbeSquares : h[s] # None}) <= MaxPieces}}

Boards == SmallBoards \cup {StartBoard, SevenBoard}

WeightSeeds == {1}

RECURSIVE Join(_)
Join(tokens) ==
    IF tokens = <<>> THEN <<>>
    ELSE IF Len(tokens) = 1 THEN tokens[1]
    ELSE tokens[1] \o <<",">> \o Join(Tail(tokens))

\* tokens of a --piece-nominals string: well formed, lacking the separator,
\* with a value that is no number, with two separators
OverrideTokens ==
    { <<"P", ":", "2">>, <<"p", ":", "3">>, <<" ", "q", " ", ":", "0">>,
      <<"K", ":", "0", ".", "5">>, <<"X", ":", "9">>,
      <<"P", "2">>, <<"Q", ":", "x">>, <<"P", ":", "1", ":", "2">> }

TokenLists == UNION {[1..n -> OverrideTokens] : n \in 0..MaxTokens}

OverrideStrings == {Join(t) : t \in TokenLists}

\* the strings the position-varied runs use: no --piece-nominals given, two
\* overrides that name no king, and one whose value is no number
FewStrings ==
    {DefaultPieceNominals,
     Join(<<<<"P", ":", "2">>, <<" ", "q", " ", ":", "0">>>>),
     Join(<<<<"n", ":", "0", ".", "5">>, <<"P", "2">>>>),
     <<"Q", ":", "x">>}

\* ------------------------------------------------------------ state

VARIABLES
    args,          \* the parsed command line (lines 25-41)
    pc,            \* the block of main() to run next
    board,         \* chess.Board(args.fen)
    g,             \* the global head's output for the position
    contrib,       \* the gathered per-square head, 64 values
    default_nom,   \* the nominal table
    part_i,        \* position of the loop of line 64
    contrib_list,  \* line 61
    global_eval,   \* line 89
    scored,        \* line 99
    deltas,        \* line 112
    sq_idx,        \* position of the loop of line 114
    calls,         \* the runs of the network, in order: the square whose
                   \* piece was taken off the position, NoSquare for none
    out            \* the printed sections, in order

vars == <<args, pc, board, g, contrib, default_nom, part_i, contrib_list,
          global_eval, scored, deltas, sq_idx, calls, out>>

Parts == Split(args.piece_nominals, ",")

InitRest ==
    /\ pc = "start"
    /\ board = <<>>
    /\ g = <<>>
    /\ contrib = <<>>
    /\ default_nom = <<>>
    /\ part_i = 0
    /\ contrib_list = <<>>
    /\ global_eval = <<>>
    /\ scored = <<>>
    /\ deltas = <<>>
    /\ sq_idx = 0
    /\ calls = <<>>
    /\ out = <<>>

Init ==
    /\ args \in [weights : WeightSeeds, fen : Boards, with_delta : BOOLEAN,
                 normalize : BOOLEAN, scale_piece : BOOLEAN,
                 piece_nominals : FewStrings, fancy : BOOLEAN,
                 grid_mode : {"contrib", "delta"}]
    /\ InitRest

InitNominals ==
    /\ args \in [weights : WeightSeeds, fen : {SevenBoard}, with_delta : BOOLEAN,
                 normalize : BOOLEAN, scale_piece : BOOLEAN,
                 piece_nominals : OverrideStrings \cup {DefaultPieceNominals},
                 fancy : BOOLEAN, grid_mode : {"contrib", "delta"}]
    /\ (args.fancy <=> args.with_delta)
    /\ (args.grid_mode = "delta" <=> args.with_delta)
    /\ InitRest

\* ------------------------------------------------------------ main()

\* lines 53-63: the position, its features, the forward pass, the gathered
\* per-square values and the default table
Evaluate ==
    /\ pc = "start"
    /\ LET feats == board_to_features(args.fen)
       IN  /\ g' = ModelGlobal(args.weights, feats)
           /\ contrib' = Gather(ModelSquares(args.weights, feats), feats)
    /\ board' = args.fen
    /\ calls' = Append(calls, [removed |-> NoSquare])
    /\ default_nom' = DefaultNom
    /\ part_i' = 1
    /\ pc' = "nominals"
    /\ UNCHANGED <<args, contrib_list, global_eval, scored, deltas, sq_idx, out>>

\* lines 64-67: one token of the override string
ParseNominal ==
    /\ pc = "nominals"
    /\ LET d == ParsePart(default_nom, Parts[part_i])
       IN  IF d.raised
           THEN /\ pc' = "error"
                /\ UNCHANGED <<default_nom, part_i>>
           ELSE /\ default_nom' = d.table
                /\ part_i' = part_i + 1
                /\ pc' = IF part_i = Len(Parts) THEN "attribution" ELSE "nominals"
    /\ UNCHANGED <<args, board, g, contrib, contrib_list, global_eval, scored,
                   deltas, sq_idx, calls, out>>

\* lines 69-89
ExtractAttribution ==
    /\ pc = "attribution"
    /\ contrib_list' = Attribution(board, contrib, default_nom,
                                   args.normalize, args.scale_piece)
    /\ global_eval' = g
    /\ pc' = "report"
    /\ UNCHANGED <<args, board, g, contrib, default_nom, part_i, scored, deltas,
                   sq_idx, calls, out>>

\* lines 91-96
PrintReport ==
    /\ pc = "report"
    /\ LET total_contrib == SumList(contrib_list)
       IN  out' = out \o
             << [sec |-> "fen"],
                [sec |-> "global", val |-> Format(global_eval, 3, FALSE)],
                [sec |-> "sum", val |-> Format(total_contrib, 3, FALSE),
                 diff |-> Format(RSub(global_eval, total_contrib), 3, TRUE)],
                [sec |-> "grid", rows |-> format_matrix(contrib_list)] >>
    /\ pc' = "ranking"
    /\ UNCHANGED <<args, board, g, contrib, default_nom, part_i, contrib_list,
                   global_eval, scored, deltas, sq_idx, calls>>

\* lines 98-112
PrintTopBottom ==
    /\ pc = "ranking"
    /\ scored' = SortDesc(Scored(board, contrib_list))
    /\ out' = out \o
          << [sec |-> "top5", lines |-> Lines(FirstFive(scored'))],
             [sec |-> "bottom5", lines |-> Lines(LastFive(scored'))] >>
    /\ deltas' = <<>>
    /\ sq_idx' = 0
    /\ pc' = IF WantsDeltas(args) THEN "deltas" ELSE "fancy"
    /\ UNCHANGED <<args, board, g, contrib, default_nom, part_i, contrib_list,
                   global_eval, calls>>

\* lines 114-124: the loop runs on to the next square it does not skip and
\* evaluates the position without that piece
RemoveAndEvaluate ==
    /\ pc = "deltas"
    /\ \E s \in SQUARES :
        /\ s >= sq_idx
        /\ DeltaSquare(board, s)
        /\ \A t \in sq_idx..(s - 1) : ~DeltaSquare(board, t)
        /\ LET b2 == RemovePieceAt(board, s)
               g2 == ModelGlobal(args.weights, board_to_features(b2))
           IN  /\ deltas' = Append(deltas,
                     [val |-> Delta(global_eval, g2), sym |-> board[s],
                      sqname |-> SquareName(s), sq_idx |-> s])
               /\ calls' = Append(calls, [removed |-> s])
        /\ sq_idx' = s + 1
    /\ UNCHANGED <<args, pc, board, g, contrib, default_nom, part_i, contrib_list,
                   global_eval, scored, out>>

\* lines 125-129: the loop is over
PrintDeltas ==
    /\ pc = "deltas"
    /\ \A s \in sq_idx..63 : ~DeltaSquare(board, s)
    /\ deltas' = SortDesc(deltas)
    /\ out' = IF args.with_delta
              THEN Append(out, [sec |-> "deltas", lines |-> Lines(deltas')])
              ELSE out
    /\ sq_idx' = 64
    /\ pc' = "fancy"
    /\ UNCHANGED <<args, board, g, contrib, default_nom, part_i, contrib_list,
                   global_eval, scored, calls>>

\* lines 131-155
PrintFancy ==
    /\ pc = "fancy"
    /\ out' = IF args.fancy
              THEN Append(out, [sec |-> "fancy",
                       rows |-> FancyGrid(board, args.grid_mode, deltas, contrib_list)])
              ELSE out
    /\ pc' = "done"
    /\ UNCHANGED <<args, board, g, contrib, default_nom, part_i, contrib_list,
                   global_eval, scored, deltas, sq_idx, calls>>

Next ==
    \/ Evaluate
    \/ ParseNominal
    \/ ExtractAttribution
    \/ PrintReport
    \/ PrintTopBottom
    \/ RemoveAndEvaluate
    \/ PrintDeltas
    \/ PrintFancy

Spec == Init /\ [][Next]_vars

SpecNominals == InitNominals /\ [][Next]_vars

\* ------------------------------------------------------------ properties

\* contrib_list has been built
Attributed == pc \in {"report", "ranking", "deltas", "fancy", "done"}

\* the loop of line 64 has run to its end
Parsed == pc \in {"attribution", "report", "ranking", "deltas", "fancy", "done"}

IsKing(sym) == sym = "K" \/ sym = "k"

\* the symbol a token names: the text before its ":", without surrounding
\* blanks, letters in upper case
TokenSymbol(part) == StrUpper(Strip(Split(part, ":")[1]))

\* the number a token gives
TokenValue(part) == ParseFloat(Split(part, ":")[2]).val

\* a SYMBOL:VALUE token: one separator and a number behind it
WellFormed(part) ==
    /\ Len(Split(part, ":")) = 2
    /\ ~ParseFloat(Split(part, ":")[2]).raised

\* the table a list of well-formed tokens asks for: the defaults of line 63,
\* each named symbol holding the value of its last token
ExpectedTable(tokens) ==
    LET named == {TokenSymbol(tokens[i]) : i \in 1..Len(tokens)}
        last(k) == CHOOSE i \in 1..Len(tokens) :
                       /\ TokenSymbol(tokens[i]) = k
                       /\ \A j \in (i + 1)..Len(tokens) : TokenSymbol(tokens[j]) # k
    IN  [k \in (DOMAIN DefaultNom) \cup named |->
            IF k \in named THEN TokenValue(tokens[last(k)]) ELSE DefaultNom[k]]

\* C1: with normalize and scalePiece off, the extractor yields 64 rows, the
\* row of an empty square is 0 and the row of an occupied square s is
\* SquareScores[r][c], r the row of s in the evaluator's order (0 = a8) and c
\* the column of the piece standing on s.
C1_AttributionAligned ==
    (Attributed /\ ~args.normalize /\ ~args.scale_piece) =>
        /\ DOMAIN contrib_list = SQUARES
        /\ \A s \in SQUARES :
              IF board[s] = None
              THEN contrib_list[s] = RZero
              ELSE contrib_list[s] =
                     ModelSquares(args.weights, board_to_features(board))
                         [FieldIndex(s)][PieceColumn(board[s])]

NamesKing(str) ==
    \E i \in 1..Len(Split(str, ",")) :
        /\ Contains(Split(str, ",")[i], ":")
        /\ TokenSymbol(Split(str, ",")[i]) = <<"K">>

C3_Claimed(val, raw, n, normalize, scale_piece) ==
    IF normalize /\ ~scale_piece THEN n[1] # 0 /\ val = RDiv(raw, n)
    ELSE IF scale_piece /\ ~normalize THEN val = RMul(raw, n)
    ELSE val = raw

\* C3 as stated: for every occupied square whose kind has a defined nominal
\* n, whatever its value, the reported value is raw/n under normalize alone,
\* raw*n under scalePiece alone, raw under neither and raw under both.
C3_AdjustAnyNominal ==
    Attributed =>
        \A s \in SQUARES :
            (board[s] # None /\ NominalOf(default_nom, board[s]) # NoFloat) =>
                C3_Claimed(contrib_list[s], contrib[s],
                           NominalOf(default_nom, board[s]),
                           args.normalize, args.scale_piece)

\* C3 amended: the same for every defined nominal other than 0; a nominal of
\* 0 counts as absent and the reported value is raw under every combination
\* of the flags.
C3_AdjustNonzeroNominal ==
    Attributed =>
        \A s \in SQUARES :
            (board[s] # None /\ NominalOf(default_nom, board[s]) # NoFloat) =>
                IF NominalOf(default_nom, board[s])[1] = 0
                THEN contrib_list[s] = contrib[s]
                ELSE C3_Claimed(contrib_list[s], contrib[s],
                                NominalOf(default_nom, board[s]),
                                args.normalize, args.scale_piece)

C3_Witness ==
    /\ pc = "done"
    /\ args.normalize /\ args.scale_piece
    /\ \E s \in SQUARES :
          /\ board[s] = "q"
          /\ NominalOf(default_nom, "q") = RZero
          /\ contrib[s] # RZero
    /\ \E s \in SQUARES :
          /\ board[s] = "P"
          /\ NominalOf(default_nom, "P") = Rat(3, 1)
          /\ contrib[s] # RZero
          /\ contrib_list[s] = contrib[s]

C5_MalformedNeverAborts == pc # "error"

\* C5 amended: a token lacking the ":" separator is skipped, never aborts
\* the run and leaves the table as it would be without that token; the run
\* aborts exactly on a token that holds ":" and is not one SYMBOL:VALUE pair
\* with a number as value.
C5_NoSeparatorSkipped ==
    /\ pc = "error" =>
          /\ Contains(Parts[part_i], ":")
          /\ ~WellFormed(Parts[part_i])
    /\ Parsed =>
          /\ \A i \in 1..Len(Parts) : Contains(Parts[i], ":") => WellFormed(Parts[i])
          /\ default_nom =
                ExpectedTable(SelectSeq(Parts, LAMBDA part : Contains(part, ":")))

C5_Witness ==
    /\ pc = "done"
    /\ Parts = << <<"P", "2">>, <<"p", ":", "3">> >>
    /\ default_nom[<<"P">>] = Rat(3, 1)

\* the squares holding a piece that is no king
NonKingSquares == {s \in SQUARES : board[s] # None /\ ~IsKing(board[s])}

\* GlobalScore of a position
GlobalScore(b) == ModelGlobal(args.weights, board_to_features(b))

\* the counterfactual loop is over
Analysed == pc \in {"fancy", "done"} /\ sq_idx = 64

\* C6: whenever counterfactual analysis runs, there is exactly one row per
\* square holding a non-king piece and none for a king or an empty square
\* (30 rows for the starting position), and each row's delta is
\* GlobalScore(original) minus GlobalScore of the position that differs from
\* the original only in that piece being absent.
C6_CounterfactualRows ==
    Analysed =>
        /\ Len(deltas) = Cardinality(NonKingSquares)
        /\ \A s \in NonKingSquares : \E i \in 1..Len(deltas) : deltas[i].sq_idx = s
        /\ \A i \in 1..Len(deltas) :
              /\ deltas[i].sq_idx \in NonKingSquares
              /\ deltas[i].sym = board[deltas[i].sq_idx]
              /\ deltas[i].val =
                    RSub(GlobalScore(board),
                         GlobalScore([s \in SQUARES |->
                                         IF s = deltas[i].sq_idx THEN None ELSE board[s]]))
        /\ board = StartBoard => Len(deltas) = 30

C6_Witness ==
    /\ pc = "done"
    /\ board = StartBoard
    /\ Len(deltas) = 30
    /\ \E i \in 1..30 : deltas[i].val # RZero

Section(name) == out[CHOOSE i \in 1..Len(out) : out[i].sec = name]

OccupiedSquares == {s \in SQUARES : board[s] # None}

\* the ranking of the occupied squares has been printed
Ranked == pc \in {"deltas", "fancy", "done"}

\* scored holds the occupied squares, each once, by value descending, and
\* the two lists are its first and last min(5, n) entries
C7_Lists ==
    LET n == Cardinality(OccupiedSquares)
        k == Min(5, n)
    IN  /\ Len(scored) = n
        /\ \A s \in OccupiedSquares :
              \E i \in 1..n : /\ scored[i].sqname = SquareName(s)
                              /\ scored[i].sym = board[s]
                              /\ scored[i].val = contrib_list[s]
        /\ \A i \in 1..n : \A j \in (i + 1)..n : ~RLess(scored[i].val, scored[j].val)
        /\ Len(Section("top5").lines) = k
        /\ Len(Section("bottom5").lines) = k
        /\ \A i \in 1..k :
              /\ Section("top5").lines[i] =
                    [sqname |-> scored[i].sqname, sym |-> scored[i].sym,
                     val |-> Format(scored[i].val, 3, TRUE)]
              /\ Section("bottom5").lines[i] =
                    [sqname |-> scored[n - k + i].sqname, sym |-> scored[n - k + i].sym,
                     val |-> Format(scored[n - k + i].val, 3, TRUE)]

C7_Overlap ==
    \E i \in 1..Len(Section("top5").lines) :
        \E j \in 1..Len(Section("bottom5").lines) :
            Section("top5").lines[i].sqname = Section("bottom5").lines[j].sqname

\* C7 as stated: the lists are the first and the last min(5, n) entries of
\* the ranking, and they share an entry on every position with fewer than 10
\* occupied squares.
C7_OverlapBelowTen ==
    Ranked => /\ C7_Lists
              /\ Cardinality(OccupiedSquares) < 10 => C7_Overlap

\* C7 amended: the same, the shared entry for every position with at least
\* one and fewer than 10 occupied squares; on the empty board both lists are
\* empty.
C7_OverlapOneToNine ==
    Ranked => /\ C7_Lists
              /\ (Cardinality(OccupiedSquares) \in 1..9) => C7_Overlap
              /\ Cardinality(OccupiedSquares) = 0 => ~C7_Overlap

C7_Witness ==
    /\ pc = "done"
    /\ board = SevenBoard
    /\ Len(Section("top5").lines) = 5
    /\ Section("top5").lines[4] = Section("bottom5").lines[1]
    /\ Section("top5").lines[1] # Section("bottom5").lines[1]

\* the cell of square s in the printed fancy grid
FancyCell(s) == Section("fancy").rows[8 - (s \div 8)][(s % 8) + 1]

\* C8: in delta mode, with or without --with-delta, the fancy grid shows on
\* each non-king occupied square the counterfactual delta of that square, 0
\* on each king square and a blank on each empty square; in contrib mode each
\* occupied square shows its attribution value.
C8_FancyGridValues ==
    (pc = "done" /\ args.fancy) =>
        \A s \in SQUARES :
            IF board[s] = None
            THEN FancyCell(s) = [sym |-> "blank", val |-> "blank"]
            ELSE /\ FancyCell(s).sym = board[s]
                 /\ FancyCell(s).val =
                       IF args.grid_mode = "contrib"
                       THEN Format(contrib_list[s], 2, FALSE)
                       ELSE IF IsKing(board[s]) THEN Format(RZero, 2, FALSE)
                       ELSE Format(RSub(GlobalScore(board),
                                        GlobalScore([board EXCEPT ![s] = None])),
                                   2, FALSE)

C8_Witness ==
    /\ pc = "done"
    /\ args.fancy /\ args.grid_mode = "delta" /\ ~args.with_delta
    /\ \E s \in SQUARES : board[s] = "K" /\ FancyCell(s).val = Format(RZero, 2, FALSE)
    /\ \E s \in SQUARES : board[s] = "Q" /\ FancyCell(s).val.digits # 0
    /\ \E s \in SQUARES : board[s] = None

SectionNames == [i \in 1..Len(out) |-> out[i].sec]

\* C9: in a run that completes, the counterfactual list is printed exactly
\* when --with-delta was given; it then holds every computed row once, in
\* non-increasing order of delta, after the top-5/bottom-5 lists and before
\* the optional fancy grid.
C9_DeltaListPrinted ==
    pc = "done" =>
        /\ SectionNames =
              <<"fen", "global", "sum", "grid", "top5", "bottom5">>
              \o (IF args.with_delta THEN <<"deltas">> ELSE <<>>)
              \o (IF args.fancy THEN <<"fancy">> ELSE <<>>)
        /\ args.with_delta =>
              /\ Len(Section("deltas").lines) = Cardinality(NonKingSquares)
              /\ \A s \in NonKingSquares :
                    \E i \in 1..Len(deltas) :
                        /\ deltas[i].sq_idx = s
                        /\ Section("deltas").lines[i] =
                              [sqname |-> SquareName(s), sym |-> board[s],
                               val |-> Format(deltas[i].val, 3, TRUE)]
              /\ \A i \in 1..Len(deltas) : \A j \in (i + 1)..Len(deltas) :
                    ~RLess(deltas[i].val, deltas[j].val)

C9_Witness ==
    /\ pc = "done"
    /\ args.with_delta /\ args.fancy
    /\ Len(Section("deltas").lines) = 6
    /\ RLess(deltas[6].val, deltas[1].val)

\* the squares removed in the runs of the network after the first
RemovedSquares == [i \in 1..(Len(calls) - 1) |-> calls[i + 1].removed]

\* the runs of the network: the original position first, then one run per
\* non-king occupied square, in ascending square order
C10_Sequential ==
    /\ pc # "start" => (Len(calls) >= 1 /\ calls[1].removed = NoSquare)
    /\ \A i \in 1..Len(RemovedSquares) :
          /\ RemovedSquares[i] \in NonKingSquares
          /\ \A j \in (i + 1)..Len(RemovedSquares) : RemovedSquares[i] < RemovedSquares[j]
    /\ pc = "done" =>
          Len(calls) = 1 + (IF args.with_delta \/ args.grid_mode = "delta"
                            THEN Cardinality(NonKingSquares) ELSE 0)

\* C10 as stated: modified positions are evaluated only if the caller asked
\* for delta output or for a delta-mode grid; every other invocation runs the
\* evaluator exactly once.
C10_LazyUnlessDeltaShown ==
    /\ C10_Sequential
    /\ ~(args.with_delta \/ (args.fancy /\ args.grid_mode = "delta")) => Len(calls) <= 1

\* C10 amended: modified positions are evaluated only if --with-delta was
\* given or the grid mode is delta, whether or not the fancy grid is printed;
\* every other invocation runs the evaluator exactly once, on the original
\* position; when the analysis runs, the evaluator runs once per non-king
\* occupied square, one at a time in ascending square order, after the
\* original evaluation.
C10_LazyUnlessDeltaMode ==
    /\ C10_Sequential
    /\ ~(args.with_delta \/ args.grid_mode = "delta") => Len(calls) <= 1

C10_Witness ==
    /\ pc = "done"
    /\ ~args.with_delta /\ ~args.fancy /\ args.grid_mode = "delta"
    /\ board = SevenBoard
    /\ RemovedSquares = <<5, 9, 10, 35, 50, 54>>

====
